---- MODULE Spec2Model ----
(***************************************************************************)
(* SettingsPage.tsx: the bulk model-name parser, the create/edit save      *)
(* orchestration with its bulk confirmation gate, the import bridge and    *)
(* the dismissal handlers of the settings modal.                           *)
(*                                                                         *)
(* A string is a sequence of one-character strings.  A LocalModelConfig is *)
(* a record [id, name, endpoint]; endpoint stands for every field the      *)
(* component copies without reading (modelType, endpoint, description,     *)
(* isEnabled).  A nullable value is a sequence of length at most one.      *)
(***************************************************************************)
EXTENDS Integers, Sequences, FiniteSets, TLC

VARIABLES
    settings,            \* useState: the held snapshot
    activeTab,           \* useState
    showLocalModelForm,  \* useState
    editingModel,        \* useState: <<>> is null, <<m>> is the model edited
    importError,         \* useState
    showBulkConfirm,     \* useState
    modelsToCreate,      \* useState: the staged list
    successMessage,      \* useState
    store,               \* SettingsService: the settings it holds
    timers,              \* pending setTimeout callbacks
    olderTimers,         \* those of them scheduled before the notice shown was set
    reads,               \* FileReader reads in flight: the text of each
    mounted,             \* the component is mounted
    keydownListeners,    \* handleEscapeKey registrations on document
    event,               \* the last event dispatched to the component
    calls,               \* the calls the handlers of that event made, in order
    input,               \* parser harness: the submitted config
    output,              \* parser harness: the list returned
    returned             \* parser harness: the parser has returned

vars == <<settings, activeTab, showLocalModelForm, editingModel, importError,
          showBulkConfirm, modelsToCreate, successMessage, store, timers,
          olderTimers, reads, mounted, keydownListeners, event, calls,
          input, output, returned>>

uiVars == <<settings, activeTab, showLocalModelForm, editingModel, importError,
            showBulkConfirm, modelsToCreate, successMessage, store, timers,
            olderTimers, reads, mounted, keydownListeners, event, calls>>

parserVars == <<input, output, returned>>

(***************************************************************************)
(* Bounds                                                                  *)
(***************************************************************************)
MaxLen == 5       \* longest submitted name of the parser harness
MaxModels == 2    \* most records the service holds
MaxTimers == 2    \* most delayed callbacks pending
MaxReads == 1     \* most file reads in flight

Chars == {"a", "b", ",", " "}

Ids == {"id1", "id2", "id3"}

Endpoints == {"e1", "e2"}

Strings(n) == UNION {[1..k -> Chars] : k \in 0..n}

(***************************************************************************)
(* String.prototype.split(','), trim(), join(', ')                         *)
(***************************************************************************)
HasComma(s) == \E i \in 1..Len(s) : s[i] = ","

FirstComma(s) == CHOOSE i \in 1..Len(s) : s[i] = "," /\ \A j \in 1..(i-1) : s[j] # ","

RECURSIVE split(_)
split(s) ==
    IF ~HasComma(s) THEN <<s>>
    ELSE LET i == FirstComma(s)
         IN  <<SubSeq(s, 1, i-1)>> \o split(SubSeq(s, i+1, Len(s)))

RECURSIVE trimStart(_)
trimStart(s) == IF s # <<>> /\ Head(s) = " " THEN trimStart(Tail(s)) ELSE s

RECURSIVE trimEnd(_)
trimEnd(s) ==
    IF s # <<>> /\ s[Len(s)] = " " THEN trimEnd(SubSeq(s, 1, Len(s)-1)) ELSE s

trimNoop(s) == s

trim(s) == trimEnd(trimStart(s))

RECURSIVE filterNonEmpty(_)
filterNonEmpty(ps) ==
    IF ps = <<>> THEN <<>>
    ELSE IF Len(Head(ps)) > 0 THEN <<Head(ps)>> \o filterNonEmpty(Tail(ps))
    ELSE filterNonEmpty(Tail(ps))

\* model.name.split(',').map(name => name.trim()).filter(name => name.length > 0)
names(name) ==
    LET pieces == split(name)
    IN  filterNonEmpty([i \in 1..Len(pieces) |-> trim(pieces[i])])

\* rnd[i] is what Math.random().toString(36).substring(2, 15) yields for the
\* i-th name: any identifier, the one of another copy or of the source included.
parseAlwaysCopies(model, rnd) ==
    LET ns == names(model.name)
    IN  [i \in 1..Len(ns) |-> [model EXCEPT !.id = rnd[i], !.name = ns[i]]]

parseCommaSeparatedModelNames(model, rnd) ==
    LET ns == names(model.name)
    IN  IF Len(ns) = 1 THEN <<model>>
        ELSE [i \in 1..Len(ns) |-> [model EXCEPT !.id = rnd[i], !.name = ns[i]]]

\* The outcomes of the identifier generator for the names of a submitted name.
Rnds(name, ids) == [1..Len(names(name)) -> ids]

RECURSIVE join(_, _)
join(ss, sep) ==
    IF ss = <<>> THEN <<>>
    ELSE IF Len(ss) = 1 THEN ss[1]
    ELSE ss[1] \o sep \o join(Tail(ss), sep)

(***************************************************************************)
(* Values                                                                  *)
(***************************************************************************)
\* What indexing past the end of an array yields.
Undefined == [id |-> "undefined", name |-> <<>>, endpoint |-> "undefined"]

at(list, i) == IF i \in 1..Len(list) THEN list[i] ELSE Undefined

Call(op, id, arg) == [op |-> op, id |-> id, arg |-> arg]

Event(type, target, model) ==
    [type |-> type, target |-> target, model |-> model, text |-> "", threw |-> FALSE]

SettingsTabs == {"general", "api", "local-models", "appearance"}

\* The names typed into the form: a padded one, two separated by a comma, a blank one.
FormNames == { <<" ", "a">>, <<"a", ",", "b">>, <<" ", ",", " ">> }

FormModels == [id : {"id1"}, name : FormNames, endpoint : {"e1"}]

\* The tabs the user clicks; "api" renders none of the elements modelled.
ClickedTabs == SettingsTabs \ {"api"}

(***************************************************************************)
(* SettingsService (external collaborator)                                 *)
(***************************************************************************)
DefaultSettings == [localModels |-> <<>>]

addLocalModel(s, config) == [s EXCEPT !.localModels = Append(@, config)]

addLocalModels(s, configs) == [s EXCEPT !.localModels = @ \o configs]

updateLocalModel(s, id, config) ==
    [s EXCEPT !.localModels =
        [i \in 1..Len(@) |-> IF @[i].id = id THEN config ELSE @[i]]]

RECURSIVE without(_, _)
without(list, id) ==
    IF list = <<>> THEN <<>>
    ELSE IF Head(list).id = id THEN without(Tail(list), id)
    ELSE <<Head(list)>> \o without(Tail(list), id)

removeLocalModel(s, id) == [s EXCEPT !.localModels = without(@, id)]

\* The uploaded texts: one the import operation rejects, one it accepts.
Uploads == {"malformed", "one model"}

importFails(text) == text = "malformed"

imported(text) ==
    IF text = "one model"
    THEN [localModels |-> <<[id |-> "id3", name |-> <<"b">>, endpoint |-> "e1"]>>]
    ELSE DefaultSettings

(***************************************************************************)
(* The rendered tree                                                       *)
(***************************************************************************)
Elements ==
    { "backdrop", "modalContent", "headerButton", "tabButton", "dismissButton",
      "addModelButton", "localModelForm", "bulkDialog", "bulkCancelButton",
      "bulkConfirmButton", "editButton", "deleteButton", "resetButton" }

Parent(e) ==
    CASE e = "modalContent" -> "backdrop"
      [] e \in {"bulkCancelButton", "bulkConfirmButton"} -> "bulkDialog"
      [] OTHER -> "modalContent"

\* Node.contains: the node itself or one of its descendants.
RECURSIVE contains(_, _)
contains(node, e) ==
    \/ e = node
    \/ e # "backdrop" /\ contains(node, Parent(e))

Rendered(e) ==
    /\ mounted
    /\ CASE e \in {"backdrop", "modalContent", "headerButton", "tabButton"} -> TRUE
         [] e = "dismissButton" -> activeTab = "local-models" /\ successMessage # <<>>
         [] e = "addModelButton" -> activeTab = "local-models"
         [] e = "localModelForm" -> activeTab = "local-models" /\ showLocalModelForm
         [] e \in {"bulkDialog", "bulkCancelButton", "bulkConfirmButton"} ->
                activeTab = "local-models" /\ showBulkConfirm
         [] e \in {"editButton", "deleteButton"} ->
                activeTab = "local-models" /\ settings.localModels # <<>>
         [] e = "resetButton" -> activeTab = "appearance"

onCloseCalls(n) == [i \in 1..n |-> Call("onClose", "", <<>>)]

backdropClickAlways(target) == onCloseCalls(1)

\* The calls handleBackdropClick makes when the click bubbles to the backdrop.
handleBackdropClick(target) ==
    IF mounted /\ ~contains("modalContent", target) THEN onCloseCalls(1) ELSE <<>>

(***************************************************************************)
(* The component                                                           *)
(***************************************************************************)
Init ==
    /\ store = DefaultSettings
    /\ settings = store
    /\ activeTab = "general"
    /\ showLocalModelForm = FALSE
    /\ editingModel = <<>>
    /\ importError = ""
    /\ showBulkConfirm = FALSE
    /\ modelsToCreate = <<>>
    /\ successMessage = <<>>
    /\ timers = 0
    /\ olderTimers = 0
    /\ reads = <<>>
    /\ mounted = TRUE
    /\ keydownListeners = 1
    /\ event = Event("mount", "", <<>>)
    /\ calls = <<>>
    /\ input = <<>>
    /\ output = <<>>
    /\ returned = FALSE

RECURSIVE repeat(_, _)
repeat(cs, n) == IF n = 0 THEN <<>> ELSE cs \o repeat(cs, n - 1)

handleEscapeKey(key) == IF key = "Escape" THEN onCloseCalls(1) ELSE <<>>

\* The effect's cleanup removes the listener before the effect adds it again.
effectRerun(n) == (n - 1) + 1

\* document dispatches keydown to every registered listener.
KeyDown(key) ==
    /\ UNCHANGED <<parserVars, olderTimers>>
    /\ event' = Event("keydown", key, <<>>)
    /\ calls' = repeat(handleEscapeKey(key), keydownListeners)
    /\ UNCHANGED <<settings, activeTab, showLocalModelForm, editingModel,
                   importError, showBulkConfirm, modelsToCreate, successMessage,
                   store, timers, reads, mounted, keydownListeners>>

\* The parent renders again with another onClose: the effect runs again.
ParentRerenders ==
    /\ UNCHANGED <<parserVars, olderTimers>>
    /\ mounted
    /\ keydownListeners' = effectRerun(keydownListeners)
    /\ event' = Event("render", "", <<>>)
    /\ calls' = <<>>
    /\ UNCHANGED <<settings, activeTab, showLocalModelForm, editingModel,
                   importError, showBulkConfirm, modelsToCreate, successMessage,
                   store, timers, reads, mounted>>

Unmount ==
    /\ UNCHANGED <<parserVars, olderTimers>>
    /\ mounted
    /\ mounted' = FALSE
    /\ keydownListeners' = keydownListeners - 1
    /\ event' = Event("unmount", "", <<>>)
    /\ calls' = <<>>
    /\ UNCHANGED <<settings, activeTab, showLocalModelForm, editingModel,
                   importError, showBulkConfirm, modelsToCreate, successMessage,
                   store, timers, reads>>

\* A click on an element that has no handler of its own.
Click(target) ==
    /\ UNCHANGED <<parserVars, olderTimers>>
    /\ target \in {"backdrop", "modalContent", "localModelForm", "bulkDialog"}
    /\ Rendered(target)
    /\ event' = Event("click", target, <<>>)
    /\ calls' = handleBackdropClick(target)
    /\ UNCHANGED <<settings, activeTab, showLocalModelForm, editingModel,
                   importError, showBulkConfirm, modelsToCreate, successMessage,
                   store, timers, reads, mounted, keydownListeners>>

ClickHeaderButton ==
    /\ UNCHANGED <<parserVars, olderTimers>>
    /\ Rendered("headerButton")
    /\ event' = Event("click", "headerButton", <<>>)
    /\ calls' = onCloseCalls(1) \o handleBackdropClick("headerButton")
    /\ UNCHANGED <<settings, activeTab, showLocalModelForm, editingModel,
                   importError, showBulkConfirm, modelsToCreate, successMessage,
                   store, timers, reads, mounted, keydownListeners>>

ClickTab(tab) ==
    /\ UNCHANGED <<parserVars, olderTimers>>
    /\ Rendered("tabButton")
    /\ activeTab' = tab
    /\ event' = Event("click", "tabButton", <<>>)
    /\ calls' = handleBackdropClick("tabButton")
    /\ UNCHANGED <<settings, showLocalModelForm, editingModel,
                   importError, showBulkConfirm, modelsToCreate, successMessage,
                   store, timers, reads, mounted, keydownListeners>>

ClickDismiss ==
    /\ UNCHANGED <<parserVars, olderTimers>>
    /\ Rendered("dismissButton")
    /\ successMessage' = <<>>
    /\ event' = Event("click", "dismissButton", <<>>)
    /\ calls' = handleBackdropClick("dismissButton")
    /\ UNCHANGED <<settings, activeTab, showLocalModelForm, editingModel,
                   importError, showBulkConfirm, modelsToCreate,
                   store, timers, reads, mounted, keydownListeners>>

ClickAddModel ==
    /\ UNCHANGED <<parserVars, olderTimers>>
    /\ Rendered("addModelButton")
    /\ showLocalModelForm' = TRUE
    /\ event' = Event("click", "addModelButton", <<>>)
    /\ calls' = handleBackdropClick("addModelButton")
    /\ UNCHANGED <<settings, activeTab, editingModel,
                   importError, showBulkConfirm, modelsToCreate, successMessage,
                   store, timers, reads, mounted, keydownListeners>>

handleEditLocalModel(i) ==
    /\ UNCHANGED <<parserVars, olderTimers>>
    /\ Rendered("editButton")
    /\ i \in 1..Len(settings.localModels)
    /\ settings.localModels[i] # Undefined
    /\ editingModel' = <<settings.localModels[i]>>
    /\ showLocalModelForm' = TRUE
    /\ event' = Event("click", "editButton", <<settings.localModels[i]>>)
    /\ calls' = handleBackdropClick("editButton")
    /\ UNCHANGED <<settings, activeTab,
                   importError, showBulkConfirm, modelsToCreate, successMessage,
                   store, timers, reads, mounted, keydownListeners>>

\* LocalModelForm's onCancel
FormCancel ==
    /\ UNCHANGED <<parserVars, olderTimers>>
    /\ Rendered("localModelForm")
    /\ showLocalModelForm' = FALSE
    /\ editingModel' = <<>>
    /\ event' = Event("cancel", "localModelForm", <<>>)
    /\ calls' = <<>>
    /\ UNCHANGED <<settings, activeTab,
                   importError, showBulkConfirm, modelsToCreate, successMessage,
                   store, timers, reads, mounted, keydownListeners>>

(***************************************************************************)
(* Save orchestration and the bulk confirmation gate                       *)
(***************************************************************************)
Room(n) == Len(store.localModels) + n <= MaxModels

\* if (editingModel) { ... }
SaveEdit(model) ==
    /\ store' = updateLocalModel(store, model.id, model)
    /\ settings' = store'
    /\ showLocalModelForm' = FALSE
    /\ editingModel' = <<>>
    /\ calls' = <<Call("updateLocalModel", model.id, <<model>>)>>
    /\ UNCHANGED <<showBulkConfirm, modelsToCreate>>

\* else { const modelsToSave = parseCommaSeparatedModelNames(model); ... }
SaveCreate(model, rnd) ==
    LET modelsToSave == parseCommaSeparatedModelNames(model, rnd)
        parsed == Call("parseCommaSeparatedModelNames", "", <<model>>)
    IN  IF Len(modelsToSave) > 1
        THEN /\ modelsToCreate' = modelsToSave
             /\ showBulkConfirm' = TRUE
             /\ calls' = <<parsed>>
             /\ UNCHANGED <<store, settings, showLocalModelForm, editingModel>>
        ELSE /\ Room(1)
             /\ store' = addLocalModel(store, at(modelsToSave, 1))
             /\ settings' = store'
             /\ showLocalModelForm' = FALSE
             /\ editingModel' = <<>>
             /\ calls' = <<parsed, Call("addLocalModel", "", <<at(modelsToSave, 1)>>)>>
             /\ UNCHANGED <<showBulkConfirm, modelsToCreate>>

\* A bulk submission that is persisted at once instead of being staged.
SaveCreateUnstaged(model, rnd) ==
    LET modelsToSave == parseCommaSeparatedModelNames(model, rnd)
        parsed == Call("parseCommaSeparatedModelNames", "", <<model>>)
    IN  /\ Room(Len(modelsToSave))
        /\ store' = addLocalModels(store, modelsToSave)
        /\ settings' = store'
        /\ showLocalModelForm' = FALSE
        /\ editingModel' = <<>>
        /\ calls' = <<parsed, Call("addLocalModels", "", modelsToSave)>>
        /\ UNCHANGED <<showBulkConfirm, modelsToCreate>>

SaveFrame(model) ==
    /\ UNCHANGED <<parserVars, olderTimers>>
    /\ Rendered("localModelForm")
    /\ event' = Event("save", "localModelForm", <<model>>)
    /\ UNCHANGED <<activeTab, importError, successMessage, timers, reads,
                   mounted, keydownListeners>>

\* The save handler without its editingModel test.
handleSaveIgnoresEditing(model, rnd) ==
    /\ SaveFrame(model)
    /\ SaveCreate(model, rnd)

\* The save handler that persists a bulk submission without confirmation.
handleSaveWithoutGate(model, rnd) ==
    /\ SaveFrame(model)
    /\ IF editingModel # <<>> THEN SaveEdit(model) ELSE SaveCreateUnstaged(model, rnd)

\* LocalModelForm's onSave
handleSaveLocalModel(model, rnd) ==
    /\ SaveFrame(model)
    /\ IF editingModel # <<>> THEN SaveEdit(model) ELSE SaveCreate(model, rnd)

nameOf(models) == [i \in 1..Len(models) |-> models[i].name]

successTextCommaOnly(models) ==
    <<"Successfully created ", ToString(Len(models)), " models: ">>
        \o join(nameOf(models), <<",">>)

\* `Successfully created ${n} models: ${names joined by ', '}`
successText(models) ==
    <<"Successfully created ", ToString(Len(models)), " models: ">>
        \o join(nameOf(models), <<",", " ">>)

handleConfirmBulkCreation ==
    /\ UNCHANGED parserVars
    /\ Rendered("bulkConfirmButton")
    /\ Room(Len(modelsToCreate))
    /\ timers < MaxTimers
    /\ store' = addLocalModels(store, modelsToCreate)
    /\ settings' = store'
    /\ showLocalModelForm' = FALSE
    /\ editingModel' = <<>>
    /\ showBulkConfirm' = FALSE
    /\ successMessage' = successText(modelsToCreate)
    /\ timers' = timers + 1
    /\ olderTimers' = timers
    /\ event' = Event("click", "bulkConfirmButton", <<>>)
    /\ calls' = <<Call("addLocalModels", "", modelsToCreate)>>
                    \o handleBackdropClick("bulkConfirmButton")
    /\ UNCHANGED <<activeTab, importError, modelsToCreate, reads, mounted,
                   keydownListeners>>

handleCancelBulkCreation ==
    /\ UNCHANGED <<parserVars, olderTimers>>
    /\ Rendered("bulkCancelButton")
    /\ showBulkConfirm' = FALSE
    /\ modelsToCreate' = <<>>
    /\ event' = Event("click", "bulkCancelButton", <<>>)
    /\ calls' = handleBackdropClick("bulkCancelButton")
    /\ UNCHANGED <<settings, activeTab, showLocalModelForm, editingModel,
                   importError, successMessage, store, timers, reads, mounted,
                   keydownListeners>>

\* The delayed callback of a confirmation; a detached timer outlives the component.
\* The delays are equal, so the callbacks run in the order they were scheduled.
TimerFires ==
    /\ UNCHANGED parserVars
    /\ timers > 0
    /\ timers' = timers - 1
    /\ olderTimers' = IF olderTimers > 0 THEN olderTimers - 1 ELSE 0
    /\ successMessage' = IF mounted THEN <<>> ELSE successMessage
    /\ event' = Event("timeout", "", <<>>)
    /\ calls' = <<>>
    /\ UNCHANGED <<settings, activeTab, showLocalModelForm, editingModel,
                   importError, showBulkConfirm, modelsToCreate, store, reads,
                   mounted, keydownListeners>>

\* answer is what confirm() returns.
handleDeleteLocalModel(i, answer) ==
    /\ UNCHANGED <<parserVars, olderTimers>>
    /\ Rendered("deleteButton")
    /\ i \in 1..Len(settings.localModels)
    /\ settings.localModels[i] # Undefined
    /\ IF answer
       THEN /\ store' = removeLocalModel(store, settings.localModels[i].id)
            /\ settings' = store'
            /\ calls' = <<Call("removeLocalModel", settings.localModels[i].id, <<>>)>>
                            \o handleBackdropClick("deleteButton")
       ELSE /\ calls' = handleBackdropClick("deleteButton")
            /\ UNCHANGED <<store, settings>>
    /\ event' = Event("click", "deleteButton", <<settings.localModels[i]>>)
    /\ UNCHANGED <<activeTab, showLocalModelForm, editingModel, importError,
                   showBulkConfirm, modelsToCreate, successMessage, timers,
                   reads, mounted, keydownListeners>>

handleResetSettings(answer) ==
    /\ UNCHANGED <<parserVars, olderTimers>>
    /\ Rendered("resetButton")
    /\ IF answer
       THEN /\ store' = DefaultSettings
            /\ settings' = store'
            /\ calls' = <<Call("resetSettings", "", <<>>)>>
                            \o handleBackdropClick("resetButton")
       ELSE /\ calls' = handleBackdropClick("resetButton")
            /\ UNCHANGED <<store, settings>>
    /\ event' = Event("click", "resetButton", <<>>)
    /\ UNCHANGED <<activeTab, showLocalModelForm, editingModel, importError,
                   showBulkConfirm, modelsToCreate, successMessage, timers,
                   reads, mounted, keydownListeners>>

(***************************************************************************)
(* Import                                                                  *)
(***************************************************************************)
RemoveAt(list, i) == SubSeq(list, 1, i - 1) \o SubSeq(list, i + 1, Len(list))

\* file is event.target.files?.[0]: <<>> when no file was chosen.
handleImportSettings(file) ==
    /\ UNCHANGED <<parserVars, olderTimers>>
    /\ mounted
    /\ activeTab = "appearance"
    /\ IF file = <<>> THEN UNCHANGED reads
       ELSE /\ Len(reads) < MaxReads
            /\ reads' = Append(reads, file[1])
    /\ event' = [Event("change", "importInput", <<>>) EXCEPT
                    !.text = IF file = <<>> THEN "" ELSE file[1]]
    /\ calls' = <<>>
    /\ UNCHANGED <<settings, activeTab, showLocalModelForm, editingModel,
                   importError, showBulkConfirm, modelsToCreate, successMessage,
                   store, timers, mounted, keydownListeners>>

\* The body without its try/catch: the service's error leaves the callback.
onloadBodyUncaught(text) ==
    IF importFails(text)
    THEN /\ event' = [Event("load", "", <<>>) EXCEPT !.text = text, !.threw = TRUE]
         /\ UNCHANGED <<store, settings, importError>>
    ELSE /\ store' = imported(text)
         /\ settings' = IF mounted THEN store' ELSE settings
         /\ importError' = IF mounted THEN "" ELSE importError
         /\ event' = [Event("load", "", <<>>) EXCEPT !.text = text]

\* try { importSettings; setSettings; setImportError('') } catch { setImportError(...) }
onloadBody(text) ==
    IF importFails(text)
    THEN /\ importError' = IF mounted THEN "Invalid settings file format" ELSE importError
         /\ event' = [Event("load", "", <<>>) EXCEPT !.text = text]
         /\ UNCHANGED <<store, settings>>
    ELSE /\ store' = imported(text)
         /\ settings' = IF mounted THEN store' ELSE settings
         /\ importError' = IF mounted THEN "" ELSE importError
         /\ event' = [Event("load", "", <<>>) EXCEPT !.text = text]

\* reader.onload, for any of the reads in flight
ReaderOnload(i) ==
    /\ UNCHANGED <<parserVars, olderTimers>>
    /\ i \in 1..Len(reads)
    /\ reads' = RemoveAt(reads, i)
    /\ onloadBody(reads[i])
    /\ calls' = <<Call("importSettings", reads[i], <<>>)>>
    /\ UNCHANGED <<activeTab, showLocalModelForm, editingModel, showBulkConfirm,
                   modelsToCreate, successMessage, timers, mounted,
                   keydownListeners>>

(***************************************************************************)
(* The component's specification                                           *)
(***************************************************************************)
Keys == {"Escape", "Enter"}

Next ==
    \/ \E key \in Keys : KeyDown(key)
    \/ ParentRerenders
    \/ Unmount
    \/ \E target \in Elements : Click(target)
    \/ ClickHeaderButton
    \/ \E tab \in ClickedTabs : ClickTab(tab)
    \/ ClickDismiss
    \/ ClickAddModel
    \/ \E i \in 1..MaxModels : handleEditLocalModel(i)
    \/ FormCancel
    \/ \E model \in FormModels : \E rnd \in Rnds(model.name, {"id1", "id2"}) :
            handleSaveLocalModel(model, rnd)
    \/ handleConfirmBulkCreation
    \/ handleCancelBulkCreation
    \/ TimerFires
    \/ \E i \in 1..MaxModels : \E answer \in BOOLEAN : handleDeleteLocalModel(i, answer)
    \/ \E answer \in BOOLEAN : handleResetSettings(answer)
    \/ \E file \in {<<>>} \cup {<<t>> : t \in Uploads} : handleImportSettings(file)
    \/ \E i \in 1..MaxReads : ReaderOnload(i)

Spec == Init /\ [][Next]_vars

\* The save orchestration and the bulk confirmation gate, without the import
\* bridge and the dismissal handlers, which read and write none of its state
\* but the store.
NextSave ==
    \/ \E tab \in ClickedTabs : ClickTab(tab)
    \/ ClickDismiss
    \/ ClickAddModel
    \/ \E i \in 1..MaxModels : handleEditLocalModel(i)
    \/ FormCancel
    \/ \E model \in FormModels : \E rnd \in Rnds(model.name, {"id1", "id2"}) :
            handleSaveLocalModel(model, rnd)
    \/ handleConfirmBulkCreation
    \/ handleCancelBulkCreation
    \/ TimerFires
    \/ \E i \in 1..MaxModels : \E answer \in BOOLEAN : handleDeleteLocalModel(i, answer)

SpecSave == Init /\ [][NextSave]_vars

\* The import bridge, with the handlers that change the store under it.
NextImport ==
    \/ \E tab \in ClickedTabs : ClickTab(tab)
    \/ ClickAddModel
    \/ FormCancel
    \/ \E model \in FormModels : \E rnd \in Rnds(model.name, {"id1", "id2"}) :
            handleSaveLocalModel(model, rnd)
    \/ handleCancelBulkCreation
    \/ \E answer \in BOOLEAN : handleResetSettings(answer)
    \/ \E file \in {<<>>} \cup {<<t>> : t \in Uploads} : handleImportSettings(file)
    \/ \E i \in 1..MaxReads : ReaderOnload(i)
    \/ Unmount

SpecImport == Init /\ [][NextImport]_vars

\* The dismissal handlers, with the handlers that render what can be clicked.
NextDismiss ==
    \/ \E key \in Keys : KeyDown(key)
    \/ ParentRerenders
    \/ Unmount
    \/ \E target \in Elements : Click(target)
    \/ ClickHeaderButton
    \/ \E tab \in ClickedTabs : ClickTab(tab)
    \/ ClickDismiss
    \/ ClickAddModel
    \/ FormCancel
    \/ \E model \in FormModels : \E rnd \in Rnds(model.name, {"id1", "id2"}) :
            handleSaveLocalModel(model, rnd)
    \/ handleConfirmBulkCreation
    \/ handleCancelBulkCreation
    \/ TimerFires

SpecDismiss == Init /\ [][NextDismiss]_vars

\* The success notice: the handlers that set, dismiss and clear it, with those
\* that let a second confirmation follow the first.  A pending callback fires
\* in the end: the browser runs every timer of a page that stays open.
NextNotice ==
    \/ \E tab \in ClickedTabs : ClickTab(tab)
    \/ ClickDismiss
    \/ ClickAddModel
    \/ FormCancel
    \/ \E model \in FormModels : \E rnd \in Rnds(model.name, {"id1", "id2"}) :
            handleSaveLocalModel(model, rnd)
    \/ handleConfirmBulkCreation
    \/ handleCancelBulkCreation
    \/ TimerFires
    \/ \E i \in 1..MaxModels : \E answer \in BOOLEAN : handleDeleteLocalModel(i, answer)

SpecNotice == Init /\ [][NextNotice]_vars /\ WF_vars(TimerFires)

(***************************************************************************)
(* The parser alone, on every name up to MaxLen                            *)
(***************************************************************************)
ParserInputs == [id : {"id1", "id2"}, name : Strings(MaxLen), endpoint : Endpoints]

InitParser ==
    /\ store = DefaultSettings
    /\ settings = store
    /\ activeTab = "local-models"
    /\ showLocalModelForm = TRUE
    /\ editingModel = <<>>
    /\ importError = ""
    /\ showBulkConfirm = FALSE
    /\ modelsToCreate = <<>>
    /\ successMessage = <<>>
    /\ timers = 0
    /\ olderTimers = 0
    /\ reads = <<>>
    /\ mounted = TRUE
    /\ keydownListeners = 1
    /\ event = Event("mount", "", <<>>)
    /\ calls = <<>>
    /\ input \in {<<m>> : m \in ParserInputs}
    /\ output = <<>>
    /\ returned = FALSE

ParserReturns ==
    /\ ~returned
    /\ \E rnd \in Rnds(input[1].name, Ids) :
            output' = parseCommaSeparatedModelNames(input[1], rnd)
    /\ returned' = TRUE
    /\ UNCHANGED input
    /\ UNCHANGED uiVars

NextParser == ParserReturns

SpecParser == InitParser /\ [][NextParser]_vars

(***************************************************************************)
(* Properties of the parser (SpecParser)                                   *)
(***************************************************************************)
Blank(s) == \A i \in 1..Len(s) : s[i] = " "

Trimmed(s) == s # <<>> /\ s[1] # " " /\ s[Len(s)] # " "

\* The pieces of a name between its commas that hold more than whitespace.
NonBlankPieces(name) == {i \in 1..Len(split(name)) : ~Blank(split(name)[i])}

\* C1 as stated: a name without a comma, blank names included, comes back as
\* the one submitted config, unchanged.
C1_AnyCommaFreeNameReturnsInput ==
    (returned /\ ~HasComma(input[1].name)) => output = <<input[1]>>

\* C1 as amended: a name without a comma that holds a non-whitespace character
\* comes back as the one submitted config, identifier and name unchanged; an
\* empty or whitespace-only name comes back as the empty list.
C1_CommaFreeNameReturnsInputUnlessBlank ==
    (returned /\ ~HasComma(input[1].name)) =>
        IF Blank(input[1].name) THEN output = <<>> ELSE output = <<input[1]>>

C1_Witness ==
    /\ returned
    /\ ~HasComma(input[1].name)
    /\ ~Blank(input[1].name)
    /\ input[1].name[1] = " "
    /\ output = <<input[1]>>

\* C2: a name of k > 1 non-empty trimmed pieces yields k configs in the order
\* of the pieces, each with the piece as name and the source's other fields,
\* and identifiers that differ from each other and from the source's, whatever
\* the identifier generator yields.
C2_CopiesHaveFreshDistinctIds ==
    LET ns == names(input[1].name)
    IN  (returned /\ Len(ns) > 1) =>
            /\ Len(output) = Len(ns)
            /\ \A i \in 1..Len(ns) :
                    /\ output[i].name = ns[i]
                    /\ output[i].endpoint = input[1].endpoint
                    /\ output[i].id # input[1].id
            /\ \A i, j \in 1..Len(output) : i # j => output[i].id # output[j].id

\* C3 as stated: every returned config has a non-empty name without leading or
\* trailing whitespace, and no two returned configs share a name.
C3_NamesTrimmedAndDistinct ==
    returned =>
        /\ \A i \in 1..Len(output) : Trimmed(output[i].name)
        /\ \A i, j \in 1..Len(output) : i # j => output[i].name # output[j].name

\* C3 as amended: in a returned list of more than one config every name is
\* non-empty, without leading or trailing whitespace and without a comma; a
\* returned list of one config carries the submitted name as it was typed; the
\* list holds one config per piece that is not blank, repeated names included,
\* unless exactly one piece is not blank.
C3_CopiesTrimmedSingleAsTyped ==
    returned =>
        /\ Len(output) > 1 =>
                \A i \in 1..Len(output) :
                    Trimmed(output[i].name) /\ ~HasComma(output[i].name)
        /\ Len(output) = 1 => output[1].name = input[1].name
        /\ Len(output) = Cardinality(NonBlankPieces(input[1].name))

C3_Witness ==
    /\ returned
    /\ Len(output) = 2
    /\ output[1].name = output[2].name
    /\ \E i \in 1..Len(input[1].name) : input[1].name[i] = " "

(***************************************************************************)
(* Properties of the save orchestration (SpecSave)                         *)
(***************************************************************************)
Made(cs, op) == {i \in 1..Len(cs) : cs[i].op = op}

CloseCount == Cardinality(Made(calls, "onClose"))

\* C4: a create-mode submission whose pieces are all empty creates nothing:
\* no addLocalModel, no addLocalModels, and the service's collection as it was.
C4_BlankSubmissionAddsNothing ==
    [][ (/\ event'.type = "save"
         /\ editingModel = <<>>
         /\ NonBlankPieces(event'.model[1].name) = {})
        => /\ Made(calls', "addLocalModel") = {}
           /\ Made(calls', "addLocalModels") = {}
           /\ store'.localModels = store.localModels ]_vars

\* C5: in create mode a submission that parses to one config is added by one
\* addLocalModel call at submit time and closes the form; one that parses to
\* more than one adds nothing at submit time and is staged; the staged configs
\* reach the service only through Confirm: every addLocalModels call is made by
\* the Confirm button with the staged list, every addLocalModel call of a config
\* is made by such a single submission, and Cancel calls nothing.
C5_PersistOnlyBySingleSaveOrConfirm ==
    [][ LET create == event'.type = "save" /\ editingModel = <<>>
            pieces == IF event'.type = "save"
                      THEN Cardinality(NonBlankPieces(event'.model[1].name)) ELSE 0
        IN  /\ (create /\ pieces = 1) =>
                    /\ Cardinality(Made(calls', "addLocalModel")) = 1
                    /\ Made(calls', "addLocalModels") = {}
                    /\ store'.localModels = Append(store.localModels, event'.model[1])
                    /\ ~showLocalModelForm'
            /\ (create /\ pieces > 1) =>
                    /\ Made(calls', "addLocalModel") = {}
                    /\ Made(calls', "addLocalModels") = {}
                    /\ store' = store
                    /\ showBulkConfirm'
                    /\ Len(modelsToCreate') = pieces
            /\ \A i \in Made(calls', "addLocalModels") :
                    /\ event'.target = "bulkConfirmButton"
                    /\ showBulkConfirm
                    /\ calls'[i].arg = modelsToCreate
            /\ \A i \in Made(calls', "addLocalModel") :
                    calls'[i].arg # <<Undefined>> => (create /\ pieces = 1)
            /\ event'.target = "bulkCancelButton" => (calls' = <<>> /\ store' = store)
            /\ store'.localModels # store.localModels => calls' # <<>> ]_vars

C5_Witness ==
    /\ event.target = "bulkConfirmButton"
    /\ Len(calls) = 1
    /\ calls[1].op = "addLocalModels"
    /\ Len(calls[1].arg) = 2
    /\ store.localModels = calls[1].arg

\* C6: a save while a model is being edited calls updateLocalModel with the
\* submitted config's id and nothing else: the parser does not run, nothing is
\* staged, the bulk confirmation is not opened, nothing is added, whatever
\* commas the submitted name holds.
C6_EditSaveOnlyUpdates ==
    [][ (event'.type = "save" /\ editingModel # <<>>)
        => /\ calls' = <<Call("updateLocalModel", event'.model[1].id, <<event'.model[1]>>)>>
           /\ modelsToCreate' = modelsToCreate
           /\ showBulkConfirm' = showBulkConfirm ]_vars

C6_Witness ==
    /\ event.type = "save"
    /\ HasComma(event.model[1].name)
    /\ Len(calls) = 1
    /\ calls[1].op = "updateLocalModel"
    /\ \E i \in 1..Len(store.localModels) : store.localModels[i] = event.model[1]

\* C7: confirming a staged list of N configs passes exactly those N, in order,
\* to one addLocalModels call (N records more in the service), and sets the
\* success message to "Successfully created N models: " followed by the N names
\* in staged order joined by ", ".
C7_ConfirmAddsAllAndNamesThem ==
    [][ event'.target = "bulkConfirmButton"
        => LET N == Len(modelsToCreate)
           IN  /\ calls' = <<Call("addLocalModels", "", modelsToCreate)>>
               /\ store'.localModels = store.localModels \o modelsToCreate
               /\ Len(store'.localModels) = Len(store.localModels) + N
               /\ successMessage' =
                    <<"Successfully created ", ToString(N), " models: ">>
                        \o join([i \in 1..N |-> modelsToCreate[i].name], <<",", " ">>) ]_vars

C7_Witness ==
    /\ event.target = "bulkConfirmButton"
    /\ Len(store.localModels) = 2
    /\ successMessage = <<"Successfully created ", "2", " models: ", "a", ",", " ", "b">>

\* C10: after Confirm or Cancel the bulk confirmation is closed and the staged
\* list is empty; after Confirm the form is closed and no model is being edited.
C10_LeavingPendingClearsStage ==
    /\ event.target = "bulkCancelButton" =>
            (~showBulkConfirm /\ modelsToCreate = <<>>)
    /\ event.target = "bulkConfirmButton" =>
            /\ ~showBulkConfirm
            /\ modelsToCreate = <<>>
            /\ ~showLocalModelForm
            /\ editingModel = <<>>

(***************************************************************************)
(* Properties of the import bridge (SpecImport)                            *)
(***************************************************************************)
\* C8: when the import operation fails on the uploaded text the held snapshot
\* stays as it was, importError becomes 'Invalid settings file format' and no
\* exception leaves the callback; when it succeeds the snapshot is the
\* service's new settings and importError is cleared.
C8_ImportFailureKeepsSnapshot ==
    [][ (event'.type = "load" /\ mounted)
        => /\ ~event'.threw
           /\ IF importFails(event'.text)
              THEN /\ settings' = settings
                   /\ importError' = "Invalid settings file format"
              ELSE /\ settings' = store'
                   /\ store' = imported(event'.text)
                   /\ importError' = "" ]_vars

C8_Witness ==
    /\ event.type = "load"
    /\ event.text = "malformed"
    /\ mounted
    /\ importError = "Invalid settings file format"
    /\ settings.localModels # <<>>
    /\ settings = store

(***************************************************************************)
(* Properties of the dismissal handlers (SpecDismiss)                      *)
(***************************************************************************)
\* C9 as stated: an Escape press while mounted and a click outside the modal
\* content each invoke onClose exactly once; no click inside the modal content,
\* the header button included, invokes it.
C9_InsideClicksNeverClose ==
    /\ (event.type = "keydown" /\ event.target = "Escape" /\ mounted) => CloseCount = 1
    /\ (event.type = "click" /\ event.target = "backdrop") => CloseCount = 1
    /\ (event.type = "click" /\ event.target # "backdrop") => CloseCount = 0

\* C9 as amended: an Escape press while mounted and a click outside the modal
\* content each invoke onClose exactly once; a click on the header button
\* invokes it exactly once, through the button's own handler; no other click
\* inside the modal content invokes it.
C9_InsideClicksCloseOnlyByHeaderButton ==
    /\ (event.type = "keydown" /\ event.target = "Escape" /\ mounted) => CloseCount = 1
    /\ (event.type = "click" /\ event.target = "backdrop") => CloseCount = 1
    /\ (event.type = "click" /\ event.target = "headerButton") => CloseCount = 1
    /\ (event.type = "click" /\ event.target \notin {"backdrop", "headerButton"})
            => CloseCount = 0

C9_Witness ==
    /\ event.type = "click"
    /\ event.target = "headerButton"
    /\ showBulkConfirm
    /\ calls = onCloseCalls(1)

(***************************************************************************)
(* Properties of the success notice (SpecNotice)                           *)
(***************************************************************************)
\* C11: a notice stays displayed until the delayed callback scheduled by the
\* Confirm that set it fires or the user dismisses it, never cleared by the
\* pending callback of an earlier Confirm; and, pending callbacks firing in the
\* end, every notice is cleared in the end.
C11_NoticeClearedOnlyByOwnTimerOrDismiss ==
    /\ [][ (successMessage # <<>> /\ successMessage' = <<>>)
           => \/ event'.target = "dismissButton"
              \/ event'.type = "timeout" /\ olderTimers = 0 ]_vars
    /\ (successMessage # <<>>) ~> (successMessage = <<>>)

====
